---- MODULE Spec2Model ----
(***************************************************************************)
(* Local Whisper STT service (main.py): the POST gate, the /transcribe     *)
(* handler with its admission semaphore, the background model loader and   *)
(* the streaming upload ingestion, as a state machine.                      *)
(*                                                                          *)
(* The handler is an `async def` coroutine: it runs on the single event-    *)
(* loop thread and hands the loop to another request only at an `await`     *)
(* (variable `loop`).  The model loader is a real thread and interleaves    *)
(* with every step.                                                         *)
(*                                                                          *)
(* Spec       MAX_CONCURRENT_TRANSCRIBES 0 or MaxConcurrent, default       *)
(*            allowlist, recorder on                                        *)
(* SpecGate   any ALLOWED_POST_HOSTS and ENABLE_SQLITE_LOGS, capacity 1     *)
(* SpecIngest one call of _save_upload_with_limit on any stream and limit   *)
(* SpecLoader start_model_loader called from several threads at once        *)
(***************************************************************************)
EXTENDS Integers, Sequences, FiniteSets, TLC

\* ------------------------------------------------------------- bounds
NReq == 2                \* requests that arrive during one run
MaxConcurrent == 2       \* Spec: the largest MAX_CONCURRENT_TRANSCRIBES
MaxChunks == 4           \* SpecIngest: chunks in one input stream
MaxLimit == 4            \* SpecIngest: max_bytes is drawn from 0..MaxLimit
NStart == 2              \* SpecLoader: callers of start_model_loader

\* ---------------------------------------------------- program constants
\* Sizes are counted in units of 512 KiB: chunk_size (1024 * 1024 bytes in the
\* source) is 2 units, and MAX_UPLOAD_BYTES (read from the environment) is
\* configured to 3 units.
chunk_size == 2
MAX_UPLOAD_BYTES == 3
MAX_WAITED == 15

ALLOWED_SUFFIXES == {".wav", ".mp3", ".m4a", ".flac", ".ogg", ".aac", ".webm"}
ALLOWED_CONTENT_TYPES ==
    {"audio/wav", "audio/x-wav", "audio/mpeg", "audio/mp3", "audio/mp4",
     "audio/x-m4a", "audio/flac", "audio/ogg", "audio/aac", "audio/webm",
     "application/octet-stream"}

Requests == 1..NReq
None == "None"
NoOne == {}

VARIABLES
    MAX_CONCURRENT_TRANSCRIBES,  \* configuration, fixed at import
    ALLOWED_POST_HOSTS,          \* configuration, fixed at import
    ENABLE_SQLITE_LOGS,          \* configuration, fixed at import
    transcribe_semaphore,        \* value of the BoundedSemaphore
    model,                       \* global model: None or the loaded WhisperModel
    model_loading,               \* global flag
    loader,                      \* the loader thread: [pc, raised]
    started,                     \* the startup event has run
    loop,                        \* the request whose coroutine holds the event loop, if any
    rq,                          \* per request: handler position and locals
    db,                          \* rows of table transcribe_logs, oldest first
    sv,                          \* SpecIngest: one call of _save_upload_with_limit
    ld                           \* SpecLoader: callers of start_model_loader, their threads

vars == <<MAX_CONCURRENT_TRANSCRIBES, ALLOWED_POST_HOSTS, ENABLE_SQLITE_LOGS,
          transcribe_semaphore, model, model_loading, loader, started, loop,
          rq, db, sv, ld>>

config == <<MAX_CONCURRENT_TRANSCRIBES, ALLOWED_POST_HOSTS, ENABLE_SQLITE_LOGS>>

Max(a, b) == IF a >= b THEN a ELSE b
Min(a, b) == IF a <= b THEN a ELSE b

\* value=max(1, MAX_CONCURRENT_TRANSCRIBES)
Capacity == Max(1, MAX_CONCURRENT_TRANSCRIBES)

\* ----------------------------------------------------------- inputs
Hosts == {"127.0.0.1", "10.0.0.7"}
Routes == { [method |-> "POST", path |-> "/transcribe"],
            [method |-> "POST", path |-> "/other"],
            [method |-> "GET",  path |-> "/test"] }
FileNames == {"clip.WAV", "notes.txt"}
RawContentTypes == {"", "Audio/WAV; codecs=1", "text/plain"}
UploadSizes == {0, MAX_UPLOAD_BYTES, MAX_UPLOAD_BYTES + 1}
HostLists == { {"127.0.0.1", "::1"}, {"*"} }

\* os.path.splitext(filename)[1].lower()
Suffix(filename) ==
    CASE filename = "clip.WAV"  -> ".wav"
      [] filename = "notes.txt" -> ".txt"
      [] OTHER                  -> ""

\* (file.content_type or "").split(";")[0].strip().lower()
NormalizeContentType(raw) ==
    CASE raw = "Audio/WAV; codecs=1" -> "audio/wav"
      [] raw = "text/plain"          -> "text/plain"
      [] OTHER                       -> ""

\* ------------------------------------------------- the semaphore
\* Faulty variant: an acquire that never refuses.
acquire_unbounded(value) == [ok |-> TRUE, value |-> value - 1]

\* Faulty variant: an acquire that keeps the last slot back.
acquire_off_by_one(value) ==
    IF value > 1 THEN [ok |-> TRUE, value |-> value - 1]
                 ELSE [ok |-> FALSE, value |-> value]

\* BoundedSemaphore.acquire(blocking=False)
acquire(value) ==
    IF value > 0 THEN [ok |-> TRUE, value |-> value - 1]
                 ELSE [ok |-> FALSE, value |-> value]

\* BoundedSemaphore.release(): ValueError when released too many times
release(value, initial) ==
    IF value >= initial THEN [ok |-> FALSE, value |-> value]
                        ELSE [ok |-> TRUE, value |-> value + 1]

\* ------------------------------------------------- the POST gate
\* Faulty variant: a gate without the "*" wildcard.
_is_allowed_post_host_no_wildcard(host) == host \in ALLOWED_POST_HOSTS

_is_allowed_post_host(host) ==
    IF "*" \in ALLOWED_POST_HOSTS THEN TRUE ELSE host \in ALLOWED_POST_HOSTS

\* ------------------------------------------------- request records
Pipeline == <<"admission", "model_ready", "validation", "ingestion",
              "normalization", "transcription", "response">>

NewRequest ==
    [ pc |-> "idle", method |-> "", path |-> "", client_host |-> "",
      filename |-> "", content_type |-> "", size |-> 0,
      invoked |-> FALSE, acquired |-> FALSE, status_code |-> 0, error_detail |-> "",
      detail |-> "", response_payload |-> FALSE, uploaded_bytes |-> 0,
      ready |-> "", waited |-> 0, tmpdir |-> FALSE,
      total_bytes |-> 0, written |-> 0, encoder |-> "", inference |-> "",
      exc |-> "", exc_status |-> 0, exc_text |-> "",
      releases |-> 0, logged |-> FALSE, close_raised |-> FALSE,
      resp |-> 0, trace |-> <<>> ]

\* Positions at which a coroutine is suspended in an await (or not running).
AwaitPoints == {"idle", "handler", "ingest", "close", "done"}

\* A request step runs when the event loop is free or already its own.
CanRun(r) == loop \subseteq {r}
LoopAfter(r, pc) == IF pc \in AwaitPoints THEN NoOne ELSE {r}

\* SpecIngest: `input` is the stream as the chunks its reads return, `pos` the
\* number of reads that returned a chunk, `destination` the chunks written.
IdleIngest ==
    [ pc |-> "unused", input |-> <<>>, pos |-> 0, max_bytes |-> 0,
      total_bytes |-> 0, destination |-> <<>>, result |-> "" ]

\* SpecLoader: `call` is where each caller of start_model_loader stands and
\* `thread` the load thread that caller started, if it did.
IdleLoader == [ call |-> <<>>, thread |-> <<>> ]

\* ------------------------------------------------- initial state
\* The module after import, before the startup event.
Imported ==
    /\ transcribe_semaphore = Max(1, MAX_CONCURRENT_TRANSCRIBES)
    /\ model = None
    /\ model_loading = FALSE
    /\ loader = [pc |-> "unstarted", raised |-> FALSE]
    /\ started = FALSE
    /\ loop = NoOne
    /\ rq = [r \in Requests |-> NewRequest]
    /\ db = <<>>

\* Spec: MAX_CONCURRENT_TRANSCRIBES 0 (raised to capacity 1 by the max) or
\* MaxConcurrent, the default ALLOWED_POST_HOSTS and ENABLE_SQLITE_LOGS.
\* The default MAX_CONCURRENT_TRANSCRIBES, 1, is SpecGate's.
Init ==
    /\ MAX_CONCURRENT_TRANSCRIBES \in {0, MaxConcurrent}
    /\ ALLOWED_POST_HOSTS = {"127.0.0.1", "::1"}
    /\ ENABLE_SQLITE_LOGS = TRUE
    /\ Imported
    /\ sv = IdleIngest
    /\ ld = IdleLoader

\* SpecGate: any ALLOWED_POST_HOSTS and ENABLE_SQLITE_LOGS, the default
\* MAX_CONCURRENT_TRANSCRIBES.
InitGate ==
    /\ MAX_CONCURRENT_TRANSCRIBES = 1
    /\ ALLOWED_POST_HOSTS \in HostLists
    /\ ENABLE_SQLITE_LOGS \in BOOLEAN
    /\ Imported
    /\ sv = IdleIngest
    /\ ld = IdleLoader

\* ------------------------------------------------- model loader
\* start_model_loader(), the startup event
start_model_loader ==
    /\ ~started
    /\ started' = TRUE
    /\ IF model = None /\ ~model_loading
       THEN /\ model_loading' = TRUE
            /\ loader' = [pc |-> "WhisperModel", raised |-> FALSE]
       ELSE UNCHANGED <<model_loading, loader>>
    /\ UNCHANGED <<config, transcribe_semaphore, model, loop, rq, db, sv, ld>>

\* _load_model_sync: m = WhisperModel(...) returns or raises
LoadConstruct ==
    /\ loader.pc = "WhisperModel"
    /\ \E raised \in BOOLEAN :
          loader' = [pc |-> IF raised THEN "finally" ELSE "assign",
                     raised |-> raised]
    /\ UNCHANGED <<config, transcribe_semaphore, model, model_loading, started,
                   loop, rq, db, sv, ld>>

\* Faulty variant: the loader clears model_loading first and publishes the
\* model after that.
LoadAssign_flag_cleared_first ==
    /\ loader.pc \in {"assign", "publish"}
    /\ IF loader.pc = "assign"
       THEN /\ model_loading' = FALSE
            /\ loader' = [loader EXCEPT !.pc = "publish"]
            /\ UNCHANGED model
       ELSE /\ model' = "WhisperModel"
            /\ loader' = [loader EXCEPT !.pc = "finally"]
            /\ UNCHANGED model_loading
    /\ UNCHANGED <<config, transcribe_semaphore, started, loop, rq, db, sv, ld>>

\* with model_lock: model = m
LoadAssign ==
    /\ loader.pc = "assign"
    /\ model' = "WhisperModel"
    /\ loader' = [loader EXCEPT !.pc = "finally"]
    /\ UNCHANGED <<config, transcribe_semaphore, model_loading, started, loop,
                   rq, db, sv, ld>>

\* Faulty variant: a load that failed is tried again.
LoadFinally_retries ==
    /\ loader.pc = "finally"
    /\ IF loader.raised
       THEN /\ loader' = [pc |-> "WhisperModel", raised |-> FALSE]
            /\ UNCHANGED model_loading
       ELSE /\ model_loading' = FALSE
            /\ loader' = [loader EXCEPT !.pc = "exit"]
    /\ UNCHANGED <<config, transcribe_semaphore, model, started, loop, rq, db,
                   sv, ld>>

\* finally: model_loading = False
LoadFinally ==
    /\ loader.pc = "finally"
    /\ model_loading' = FALSE
    /\ loader' = [loader EXCEPT !.pc = "exit"]
    /\ UNCHANGED <<config, transcribe_semaphore, model, started, loop, rq, db, sv, ld>>

\* ------------------------------------------------- upload ingestion
\* Faulty variant: the limit compared with >= instead of >.
save_upload_step_ge(total_bytes, chunk_len, max_bytes) ==
    IF chunk_len = 0
    THEN [ total_bytes |-> total_bytes, write |-> 0,
           result |-> IF total_bytes = 0 THEN "400" ELSE "return" ]
    ELSE IF total_bytes + chunk_len >= max_bytes
         THEN [ total_bytes |-> total_bytes + chunk_len, write |-> 0,
                result |-> "413" ]
         ELSE [ total_bytes |-> total_bytes + chunk_len, write |-> chunk_len,
                result |-> "reading" ]

\* Faulty variant: no check for an upload that ends with no byte read.
save_upload_step_no_empty_check(total_bytes, chunk_len, max_bytes) ==
    IF chunk_len = 0
    THEN [ total_bytes |-> total_bytes, write |-> 0, result |-> "return" ]
    ELSE IF total_bytes + chunk_len > max_bytes
         THEN [ total_bytes |-> total_bytes + chunk_len, write |-> 0,
                result |-> "413" ]
         ELSE [ total_bytes |-> total_bytes + chunk_len, write |-> chunk_len,
                result |-> "reading" ]

\* Faulty variant: the limit is applied to each chunk, not to the total.
save_upload_step_limit_per_chunk(total_bytes, chunk_len, max_bytes) ==
    IF chunk_len = 0
    THEN [ total_bytes |-> total_bytes, write |-> 0,
           result |-> IF total_bytes = 0 THEN "400" ELSE "return" ]
    ELSE IF chunk_len > max_bytes
         THEN [ total_bytes |-> total_bytes + chunk_len, write |-> 0,
                result |-> "413" ]
         ELSE [ total_bytes |-> total_bytes + chunk_len, write |-> chunk_len,
                result |-> "reading" ]

\* One pass of the loop of _save_upload_with_limit on the chunk just read
\* (chunk_len = 0: the read returned no bytes).  `write` is what goes to the
\* destination file in this pass.
save_upload_step(total_bytes, chunk_len, max_bytes) ==
    IF chunk_len = 0
    THEN [ total_bytes |-> total_bytes, write |-> 0,
           result |-> IF total_bytes = 0 THEN "400" ELSE "return" ]
    ELSE IF total_bytes + chunk_len > max_bytes
         THEN [ total_bytes |-> total_bytes + chunk_len, write |-> 0,
                result |-> "413" ]
         ELSE [ total_bytes |-> total_bytes + chunk_len, write |-> chunk_len,
                result |-> "reading" ]

\* ------------------------------------------------- exits of the try block
\* Faulty variant: the directory made for the request is left behind when an
\* exception leaves the try block.
Leave_keeps_directory(rec, type, status, text) ==
    [rec EXCEPT !.exc = type, !.exc_status = status, !.exc_text = text]

\* An exception leaves the try block.  Leaving `with TemporaryDirectory()`
\* on the way removes the directory and the file in it.
Leave(rec, type, status, text) ==
    [rec EXCEPT !.exc = type, !.exc_status = status, !.exc_text = text,
                !.tmpdir = FALSE, !.written = 0, !.total_bytes = 0]

\* f"Error interno no manejado: {type(e).__name__}"
InternalDetail(type) == "Error interno no manejado: " \o type

\* Lines 422-430: the two except clauses.  `detail` is what the exception
\* that leaves the handler carries to the client.
ExceptClauses(rec) ==
    IF rec.exc = "HTTPException"
    THEN [rec EXCEPT !.status_code = rec.exc_status,
                     !.error_detail = rec.exc_text,
                     !.detail = rec.exc_text, !.pc = "finally"]
    ELSE [rec EXCEPT !.status_code = 500,
                     !.error_detail = InternalDetail(rec.exc),
                     !.detail = "Error interno del servidor", !.pc = "finally"]

\* What the finally block still uses once the try block is left: acquired,
\* the arguments of _log_transcribe_event that the log row keeps, and what
\* the handler returned (response_payload) or raised (detail).
FinallyLocals(rec) ==
    [NewRequest EXCEPT !.pc = "close", !.method = rec.method, !.path = rec.path,
                       !.invoked = rec.invoked, !.acquired = rec.acquired,
                       !.status_code = rec.status_code,
                       !.error_detail = rec.error_detail,
                       !.detail = rec.detail,
                       !.response_payload = rec.response_payload]

\* The request leaves the application with status `resp`: the server sends
\* the response next.  status_code, detail and response_payload are what the
\* handler last set, returned or raised.
Responding(rec, resp) ==
    [NewRequest EXCEPT !.pc = "respond", !.method = rec.method, !.path = rec.path,
                       !.client_host = rec.client_host, !.invoked = rec.invoked,
                       !.acquired = rec.acquired, !.releases = rec.releases,
                       !.logged = rec.logged, !.close_raised = rec.close_raised,
                       !.status_code = rec.status_code,
                       !.detail = rec.detail,
                       !.response_payload = rec.response_payload,
                       !.resp = resp]

\* What is left of a request once its response has been sent.
Finished(rec) ==
    [NewRequest EXCEPT !.pc = "done", !.invoked = rec.invoked,
                       !.acquired = rec.acquired, !.releases = rec.releases,
                       !.logged = rec.logged, !.close_raised = rec.close_raised]

\* raise <exception> inside the try block: the except clause that catches it
\* runs next and the handler enters its finally block.
Raise(rec, type, status, text) == ExceptClauses(Leave(rec, type, status, text))
RaiseHTTP(rec, status, text) == Raise(rec, "HTTPException", status, text)

Step(r, rec) ==
    /\ rq' = [rq EXCEPT ![r] = rec]
    /\ loop' = LoopAfter(r, rec.pc)

Stage(rec, name) == [rec EXCEPT !.trace = Append(@, name)]

\* The upload a request carries.  Nothing acts on it before validation, so it
\* is drawn where validation reads it, or at the rejection that ends the
\* request before validation (there with no declared content type: only the
\* name and the size of a rejected upload are looked at).
Upload(rec, fn, raw, size) ==
    [rec EXCEPT !.filename = fn, !.content_type = NormalizeContentType(raw),
                !.size = size]

\* ------------------------------------------------- the POST gate
\* restrict_post_to_localhost, then routing of a request that passed
restrict_post_to_localhost(r) ==
    /\ started
    /\ rq[r].pc = "idle"
    /\ \A q \in Requests : q < r => rq[q].pc # "idle"
    /\ CanRun(r)
    /\ \E route \in Routes, host \in Hosts :
         LET rec == [rq[r] EXCEPT !.method = route.method, !.path = route.path,
                                  !.client_host = host]
         IN  IF route.method = "POST" /\ ~_is_allowed_post_host(host)
             THEN Step(r, Responding(rec, 403))
             ELSE IF route.method = "POST" /\ route.path = "/transcribe"
             THEN Step(r, [rec EXCEPT !.pc = "handler"])
             ELSE IF route.method = "GET" /\ route.path = "/test"
             THEN Step(r, Responding(rec, 200))
             ELSE Step(r, Responding(rec, 404))
    /\ UNCHANGED <<config, transcribe_semaphore, model, model_loading, loader,
                   started, db, sv, ld>>

\* ------------------------------------------------- /transcribe
\* Lines 344-358: the locals, then the non-blocking acquire.
Admission(r) ==
    /\ rq[r].pc = "handler"
    /\ CanRun(r)
    /\ LET got == acquire(transcribe_semaphore)
           rec == Stage([rq[r] EXCEPT !.invoked = TRUE, !.status_code = 500,
                                      !.client_host = "",
                                      !.acquired = got.ok], "admission")
       IN  /\ transcribe_semaphore' = got.value
           /\ IF got.ok
              THEN Step(r, [rec EXCEPT !.pc = "ens_if"])
              ELSE \E fn \in FileNames, size \in UploadSizes :
                     Step(r, RaiseHTTP(Upload(rec, fn, "", size), 429,
                                       "Servicio ocupado. Reintente en unos segundos."))
    /\ UNCHANGED <<config, model, model_loading, loader, started, db, sv, ld>>

\* ensure_model_loaded: if model is not None: return True
EnsureIf(r) ==
    /\ rq[r].pc = "ens_if"
    /\ CanRun(r)
    /\ LET rec == Stage(rq[r], "model_ready")
       IN  IF model # None
           THEN Step(r, [rec EXCEPT !.ready = "True", !.pc = "validate"])
           ELSE Step(r, [rec EXCEPT !.waited = 0, !.pc = "ens_while_model"])
    /\ UNCHANGED <<config, transcribe_semaphore, model, model_loading, loader,
                   started, db, sv, ld>>

\* while model is None ...
EnsureWhileModel(r) ==
    /\ rq[r].pc = "ens_while_model"
    /\ CanRun(r)
    /\ IF model = None
       THEN Step(r, [rq[r] EXCEPT !.pc = "ens_while_loading"])
       ELSE Step(r, [rq[r] EXCEPT !.pc = "ens_return"])
    /\ UNCHANGED <<config, transcribe_semaphore, model, model_loading, loader,
                   started, db, sv, ld>>

\* Faulty variant: the loop has no limit on waited.
EnsureWhileLoading_unbounded(r) ==
    /\ rq[r].pc = "ens_while_loading"
    /\ CanRun(r)
    /\ IF model_loading
       THEN Step(r, [rq[r] EXCEPT !.waited = @ + 1, !.pc = "ens_while_model"])
       ELSE Step(r, [rq[r] EXCEPT !.pc = "ens_return"])
    /\ UNCHANGED <<config, transcribe_semaphore, model, model_loading, loader,
                   started, db, sv, ld>>

\* ... and model_loading and waited < 15: time.sleep(1); waited += 1
EnsureWhileLoading(r) ==
    /\ rq[r].pc = "ens_while_loading"
    /\ CanRun(r)
    /\ IF model_loading /\ rq[r].waited < MAX_WAITED
       THEN Step(r, [rq[r] EXCEPT !.waited = @ + 1, !.pc = "ens_while_model"])
       ELSE Step(r, [rq[r] EXCEPT !.pc = "ens_return"])
    /\ UNCHANGED <<config, transcribe_semaphore, model, model_loading, loader,
                   started, db, sv, ld>>

\* Faulty variant: the handler goes on whatever ensure_model_loaded returned.
EnsureReturn_ignored(r) ==
    /\ rq[r].pc = "ens_return"
    /\ CanRun(r)
    /\ Step(r, [rq[r] EXCEPT !.ready = "True", !.waited = 0, !.pc = "validate"])
    /\ UNCHANGED <<config, transcribe_semaphore, model, model_loading, loader,
                   started, db, sv, ld>>

\* return model is not None; lines 360-361: 503 when it is False
EnsureReturn(r) ==
    /\ rq[r].pc = "ens_return"
    /\ CanRun(r)
    /\ IF model # None
       THEN Step(r, [rq[r] EXCEPT !.ready = "True", !.waited = 0,
                                  !.pc = "validate"])
       ELSE \E fn \in FileNames, size \in UploadSizes :
              Step(r, RaiseHTTP(Upload([rq[r] EXCEPT !.ready = "False", !.waited = 0],
                                       fn, "", size),
                                503, "Modelo no cargado todavia. Reintente en unos minutos o convierta/instale el modelo requerido."))
    /\ UNCHANGED <<config, transcribe_semaphore, model, model_loading, loader,
                   started, db, sv, ld>>

\* Faulty variant: the suffix is not checked.
Validate_no_suffix_check(r) ==
    /\ rq[r].pc = "validate"
    /\ CanRun(r)
    /\ \E fn \in FileNames, raw \in RawContentTypes, size \in UploadSizes :
         LET rec == Stage(Upload(rq[r], fn, raw, size), "validation")
         IN  IF rec.content_type # ""
                /\ rec.content_type \notin ALLOWED_CONTENT_TYPES
             THEN Step(r, RaiseHTTP(rec, 400, "Content-Type no permitido: "
                                                    \o rec.content_type))
             ELSE \/ Step(r, [rec EXCEPT !.tmpdir = TRUE, !.pc = "ingest"])
                  \/ Step(r, Raise(rec, "OSError", 0, ""))
    /\ UNCHANGED <<config, transcribe_semaphore, model, model_loading, loader,
                   started, db, sv, ld>>

\* Lines 363-372: suffix and content type, then the temporary directory
\* (whose creation may raise).
Validate(r) ==
    /\ rq[r].pc = "validate"
    /\ CanRun(r)
    /\ \E fn \in FileNames, raw \in RawContentTypes, size \in UploadSizes :
         LET rec == Stage(Upload(rq[r], fn, raw, size), "validation")
         IN  IF Suffix(rec.filename) \notin ALLOWED_SUFFIXES
             THEN Step(r, RaiseHTTP(rec, 400, "Formato de audio no soportado"))
             ELSE IF rec.content_type # ""
                     /\ rec.content_type \notin ALLOWED_CONTENT_TYPES
             THEN Step(r, RaiseHTTP(rec, 400, "Content-Type no permitido: "
                                                    \o rec.content_type))
             ELSE \/ Step(r, [rec EXCEPT !.tmpdir = TRUE, !.pc = "ingest"])
                  \/ Step(r, Raise(rec, "OSError", 0, ""))
    /\ UNCHANGED <<config, transcribe_semaphore, model, model_loading, loader,
                   started, db, sv, ld>>

\* _save_upload_with_limit, one read of at most chunk_size bytes per step;
\* the read or the write may raise.
Ingest(r) ==
    /\ rq[r].pc = "ingest"
    /\ CanRun(r)
    /\ LET rec == IF rq[r].trace[Len(rq[r].trace)] # "ingestion"
                  THEN Stage(rq[r], "ingestion") ELSE rq[r]
           chunk == Min(chunk_size, rec.size - rec.total_bytes)
           s == save_upload_step(rec.total_bytes, chunk, MAX_UPLOAD_BYTES)
           rec2 == [rec EXCEPT !.total_bytes = s.total_bytes,
                               !.written = @ + s.write]
       IN  \/ CASE s.result = "reading" -> Step(r, rec2)
                [] s.result = "413" ->
                     Step(r, RaiseHTTP(rec2, 413,
                         "Archivo demasiado grande. Maximo permitido: "
                            \o ToString(MAX_UPLOAD_BYTES) \o " bytes"))
                [] s.result = "400" ->
                     Step(r, RaiseHTTP(rec2, 400, "Archivo vacio"))
                [] OTHER ->
                     Step(r, [rec2 EXCEPT !.uploaded_bytes = s.total_bytes,
                                          !.pc = "encode"])
           \/ Step(r, Raise(rec, "OSError", 0, ""))
    /\ UNCHANGED <<config, transcribe_semaphore, model, model_loading, loader,
                   started, db, sv, ld>>

\* subprocess.run(cmd, check=True, timeout=FFMPEG_TIMEOUT_SECONDS, ...)
EncoderOutcomes ==
    {"exit0", "TimeoutExpired", "CalledProcessError", "OSError"}

Encode(r) ==
    /\ rq[r].pc = "encode"
    /\ CanRun(r)
    /\ \E outcome \in EncoderOutcomes :
         LET rec == Stage([rq[r] EXCEPT !.encoder = outcome], "normalization")
         IN  CASE outcome = "exit0" -> Step(r, [rec EXCEPT !.pc = "transcribe"])
               [] outcome = "TimeoutExpired" ->
                    Step(r, RaiseHTTP(rec, 504, "Tiempo de procesamiento excedido en ffmpeg"))
               [] outcome = "CalledProcessError" ->
                    Step(r, RaiseHTTP(rec, 422, "No se pudo procesar el audio con ffmpeg"))
               [] OTHER -> Step(r, Raise(rec, outcome, 0, ""))
    /\ UNCHANGED <<config, transcribe_semaphore, model, model_loading, loader,
                   started, db, sv, ld>>

\* Lines 403-421: model.transcribe, the segments, the payload, status 200,
\* return (which leaves the `with` and removes the directory).
Transcribe(r) ==
    /\ rq[r].pc = "transcribe"
    /\ CanRun(r)
    /\ LET rec == Stage(rq[r], "transcription")
       IN  IF model = None
           THEN Step(r, Raise([rec EXCEPT !.inference = "AttributeError"],
                              "AttributeError", 0, ""))
           ELSE \/ Step(r, [Stage([rec EXCEPT !.inference = "ok"], "response")
                              EXCEPT !.response_payload = TRUE,
                                     !.status_code = 200,
                                     !.tmpdir = FALSE, !.written = 0,
                                     !.pc = "finally"])
                \/ Step(r, Raise([rec EXCEPT !.inference = "RuntimeError"],
                                 "RuntimeError", 0, ""))
    /\ UNCHANGED <<config, transcribe_semaphore, model, model_loading, loader,
                   started, db, sv, ld>>

\* finally: latency_ms = ...; then the handler waits in `await file.close()`
Finally(r) ==
    /\ rq[r].pc = "finally"
    /\ CanRun(r)
    /\ Step(r, FinallyLocals(rq[r]))
    /\ UNCHANGED <<config, transcribe_semaphore, model, model_loading, loader,
                   started, db, sv, ld>>

\* await file.close() returns, or raises: the exception leaves the handler
\* from inside the finally block and the server answers 500.
Close(r) ==
    /\ rq[r].pc = "close"
    /\ CanRun(r)
    /\ \/ Step(r, [rq[r] EXCEPT !.pc = "release"])
       \/ Step(r, Responding([rq[r] EXCEPT !.close_raised = TRUE], 500))
    /\ UNCHANGED <<config, transcribe_semaphore, model, model_loading, loader,
                   started, db, sv, ld>>

\* if acquired: transcribe_semaphore.release()
Release(r) ==
    /\ rq[r].pc = "release"
    /\ CanRun(r)
    /\ IF rq[r].acquired
       THEN LET rel == release(transcribe_semaphore, Capacity)
            IN  /\ transcribe_semaphore' = rel.value
                /\ IF rel.ok
                   THEN Step(r, [rq[r] EXCEPT !.releases = @ + 1, !.pc = "log"])
                   ELSE Step(r, Responding(rq[r], 500))
       ELSE /\ Step(r, [rq[r] EXCEPT !.pc = "log"])
            /\ UNCHANGED transcribe_semaphore
    /\ UNCHANGED <<config, model, model_loading, loader, started, db, sv, ld>>

\* Faulty variant: the row is given the status the local was initialised
\* with, 500, whatever the handler set later.
LogRow_initial_status(rec, r) ==
    [ id |-> Len(db) + 1, request |-> r, status_code |-> 500,
      ok |-> 0,
      response_json |-> IF rec.response_payload THEN "{payload}" ELSE "",
      error_detail |-> rec.error_detail ]

\* The row _log_transcribe_event inserts: the columns id, status_code, ok,
\* response_json and error_detail, and the request the row is of.
LogRow(rec, r) ==
    [ id |-> Len(db) + 1, request |-> r, status_code |-> rec.status_code,
      ok |-> IF 200 <= rec.status_code /\ rec.status_code < 300 THEN 1 ELSE 0,
      response_json |-> IF rec.response_payload THEN "{payload}" ELSE "",
      error_detail |-> rec.error_detail ]

\* Faulty variant: a failing INSERT is not caught and the server answers 500.
Log_insert_failure_raises(r) ==
    /\ rq[r].pc = "log"
    /\ CanRun(r)
    /\ IF ENABLE_SQLITE_LOGS
       THEN \/ /\ db' = Append(db, LogRow(rq[r], r))
               /\ Step(r, Responding([rq[r] EXCEPT !.logged = TRUE],
                                     rq[r].status_code))
            \/ /\ db' = db
               /\ Step(r, Responding([rq[r] EXCEPT !.logged = TRUE], 500))
       ELSE /\ db' = db
            /\ Step(r, Responding([rq[r] EXCEPT !.logged = TRUE],
                                  rq[r].status_code))
    /\ UNCHANGED <<config, transcribe_semaphore, model, model_loading, loader,
                   started, sv, ld>>

\* _log_transcribe_event(...): a no-op when the recorder is off; the INSERT
\* may raise, which is caught.  The handler's own outcome then reaches the
\* client.
Log(r) ==
    /\ rq[r].pc = "log"
    /\ CanRun(r)
    /\ Step(r, Responding([rq[r] EXCEPT !.logged = TRUE], rq[r].status_code))
    /\ IF ENABLE_SQLITE_LOGS
       THEN \/ db' = Append(db, LogRow(rq[r], r))
            \/ db' = db
       ELSE db' = db
    /\ UNCHANGED <<config, transcribe_semaphore, model, model_loading, loader,
                   started, sv, ld>>

\* ORDER BY id DESC: rows are inserted with increasing id and never deleted,
\* so the newest-first order is the insertion order reversed.
OrderByIdDesc(rows) == [i \in 1..Len(rows) |-> rows[Len(rows) + 1 - i]]

\* One entry of the list the reader returns: "ok": bool(row["ok"]), and the
\* response re-read from response_json when that column is not empty.
LogEntry(row) ==
    [ id |-> row.id, request |-> row.request, status_code |-> row.status_code,
      ok |-> row.ok # 0,
      response |-> IF row.response_json # "" THEN "payload" ELSE None ]

\* _read_recent_transcribe_logs(limit): [] when the recorder is off, else
\* the newest max(1, min(limit, 100)) rows, newest first.
_read_recent_transcribe_logs(limit) ==
    IF ~ENABLE_SQLITE_LOGS
    THEN <<>>
    ELSE LET safe_limit == Max(1, Min(limit, 100))
             rows == SubSeq(OrderByIdDesc(db), 1, Min(safe_limit, Len(db)))
         IN  [i \in 1..Len(rows) |-> LogEntry(rows[i])]

\* The server sends the response; the request is over.
Respond(r) ==
    /\ rq[r].pc = "respond"
    /\ CanRun(r)
    /\ Step(r, Finished(rq[r]))
    /\ UNCHANGED <<config, transcribe_semaphore, model, model_loading, loader,
                   started, db, sv, ld>>

Handler(r) ==
    \/ restrict_post_to_localhost(r)
    \/ Admission(r)
    \/ EnsureIf(r)
    \/ EnsureWhileModel(r)
    \/ EnsureWhileLoading(r)
    \/ EnsureReturn(r)
    \/ Validate(r)
    \/ Ingest(r)
    \/ Encode(r)
    \/ Transcribe(r)
    \/ Finally(r)
    \/ Close(r)
    \/ Release(r)
    \/ Log(r)
    \/ Respond(r)

Next ==
    \/ start_model_loader
    \/ LoadConstruct
    \/ LoadAssign
    \/ LoadFinally
    \/ \E r \in Requests : Handler(r)

Spec == Init /\ [][Next]_vars

SpecGate == InitGate /\ [][Next]_vars

\* ------------------------------------------------- SpecIngest
\* One call of _save_upload_with_limit on any stream of at most MaxChunks
\* reads of 1..chunk_size bytes, under any limit 0..MaxLimit.
RECURSIVE SeqsUpTo(_, _)
SeqsUpTo(S, n) ==
    IF n = 0 THEN { <<>> }
    ELSE LET shorter == SeqsUpTo(S, n - 1)
         IN  shorter \cup { Append(q, x) : q \in shorter, x \in S }

RECURSIVE SumSeq(_)
SumSeq(q) == IF q = <<>> THEN 0 ELSE Head(q) + SumSeq(Tail(q))

InitIngest ==
    /\ MAX_CONCURRENT_TRANSCRIBES = 1
    /\ ALLOWED_POST_HOSTS = {"127.0.0.1", "::1"}
    /\ ENABLE_SQLITE_LOGS = TRUE
    /\ Imported
    /\ \E input \in SeqsUpTo(1..chunk_size, MaxChunks), max_bytes \in 0..MaxLimit :
         sv = [IdleIngest EXCEPT !.pc = "read", !.input = input,
                                 !.max_bytes = max_bytes]
    /\ ld = IdleLoader

\* chunk = await upload.read(chunk_size), then the rest of the loop body
SaveRead ==
    /\ sv.pc = "read"
    /\ LET chunk == IF sv.pos < Len(sv.input) THEN sv.input[sv.pos + 1] ELSE 0
           s == save_upload_step(sv.total_bytes, chunk, sv.max_bytes)
       IN  sv' = [sv EXCEPT
                    !.pos = IF chunk > 0 THEN @ + 1 ELSE @,
                    !.total_bytes = s.total_bytes,
                    !.destination = IF s.write > 0 THEN Append(@, chunk) ELSE @,
                    !.result = s.result,
                    !.pc = IF s.result = "reading" THEN "read" ELSE "done"]
    /\ UNCHANGED <<config, transcribe_semaphore, model, model_loading, loader,
                   started, loop, rq, db, ld>>

NextIngest == SaveRead

SpecIngest == InitIngest /\ [][NextIngest]_vars

\* ------------------------------------------------- SpecLoader
\* start_model_loader called by NStart threads, each once, at any time: the
\* function has no lock, so its reads and writes of the globals interleave
\* with those of the other callers and of the load threads.
Starters == 1..NStart

InitLoader ==
    /\ MAX_CONCURRENT_TRANSCRIBES = 1
    /\ ALLOWED_POST_HOSTS = {"127.0.0.1", "::1"}
    /\ ENABLE_SQLITE_LOGS = TRUE
    /\ Imported
    /\ sv = IdleIngest
    /\ ld = [ call |-> [i \in Starters |-> "idle"],
              thread |-> [i \in Starters |->
                            [pc |-> "unstarted", raised |-> FALSE]] ]

LoaderFrame ==
    UNCHANGED <<config, transcribe_semaphore, loader, started, loop, rq, db, sv>>

\* if model is None ...
StartTestModel(i) ==
    /\ ld.call[i] = "idle"
    /\ ld' = [ld EXCEPT !.call[i] = IF model = None THEN "test_loading"
                                                    ELSE "return"]
    /\ UNCHANGED <<model, model_loading>>
    /\ LoaderFrame

\* ... and not model_loading:
StartTestLoading(i) ==
    /\ ld.call[i] = "test_loading"
    /\ ld' = [ld EXCEPT !.call[i] = IF ~model_loading THEN "set" ELSE "return"]
    /\ UNCHANGED <<model, model_loading>>
    /\ LoaderFrame

\* model_loading = True
StartSet(i) ==
    /\ ld.call[i] = "set"
    /\ model_loading' = TRUE
    /\ ld' = [ld EXCEPT !.call[i] = "thread"]
    /\ UNCHANGED model
    /\ LoaderFrame

\* t = threading.Thread(target=_load_model_sync, daemon=True); t.start()
StartThread(i) ==
    /\ ld.call[i] = "thread"
    /\ ld' = [ld EXCEPT !.call[i] = "return",
                        !.thread[i] = [pc |-> "WhisperModel", raised |-> FALSE]]
    /\ UNCHANGED <<model, model_loading>>
    /\ LoaderFrame

\* _load_model_sync in the thread caller i started: the constructor
ThreadConstruct(i) ==
    /\ ld.thread[i].pc = "WhisperModel"
    /\ \E raised \in BOOLEAN :
          ld' = [ld EXCEPT !.thread[i] =
                    [pc |-> IF raised THEN "finally" ELSE "assign",
                     raised |-> raised]]
    /\ UNCHANGED <<model, model_loading>>
    /\ LoaderFrame

\* with model_lock: model = m
ThreadAssign(i) ==
    /\ ld.thread[i].pc = "assign"
    /\ model' = "WhisperModel"
    /\ ld' = [ld EXCEPT !.thread[i].pc = "finally"]
    /\ UNCHANGED model_loading
    /\ LoaderFrame

\* finally: model_loading = False
ThreadFinally(i) ==
    /\ ld.thread[i].pc = "finally"
    /\ model_loading' = FALSE
    /\ ld' = [ld EXCEPT !.thread[i].pc = "exit"]
    /\ UNCHANGED model
    /\ LoaderFrame

NextLoader ==
    \E i \in Starters :
        \/ StartTestModel(i)
        \/ StartTestLoading(i)
        \/ StartSet(i)
        \/ StartThread(i)
        \/ ThreadConstruct(i)
        \/ ThreadAssign(i)
        \/ ThreadFinally(i)

SpecLoader == InitLoader /\ [][NextLoader]_vars

\* ================================================= properties
\* Requests that acquired the admission slot and have not released it.
Holders == { r \in Requests : rq[r].acquired /\ rq[r].releases = 0 }

\* The stages that work on the upload: ingest, encode, transcribe.
Working == { r \in Requests : rq[r].pc \in {"ingest", "encode", "transcribe"} }

\* C1: in every reachable state the requests that acquired the admission
\* slot and have not released it are at most max(1, MAX_CONCURRENT_TRANSCRIBES)
\* (the semaphore counts exactly the free slots), and with capacity 1 at most
\* one request is in the ingest, encode or transcribe stage.
C1_AdmittedAtMostCapacity ==
    LET held == Cardinality(Holders)
    IN  /\ held <= Capacity
        /\ transcribe_semaphore = Capacity - held
        /\ Capacity = 1 => Cardinality(Working) <= 1

\* C1 witness: capacity 2 is used up by two requests that are both between
\* ingestion and transcription.
C1_Witness ==
    /\ Capacity = 2
    /\ Cardinality(Holders) = 2
    /\ Cardinality(Working) = 2

\* The step that takes request r through admission.
C2_AdmissionStep(r) ==
    (rq[r].pc = "handler" /\ rq'[r].pc # "handler") =>
        IF Cardinality(Holders) < Capacity
        THEN /\ rq'[r].acquired
             /\ rq'[r].pc = "ens_if"
             /\ transcribe_semaphore' = transcribe_semaphore - 1
        ELSE /\ ~rq'[r].acquired
             /\ rq'[r].pc = "finally"
             /\ rq'[r].status_code = 429
             /\ rq'[r].detail = "Servicio ocupado. Reintente en unos segundos."
             /\ transcribe_semaphore' = transcribe_semaphore
             /\ \A q \in Requests \ {r} : rq'[q] = rq[q]

\* The end of the cleanup of a request that admission rejected.
C2_RejectedAnswer(r) ==
    (rq[r].pc = "log" /\ ~rq[r].acquired /\ rq[r].status_code = 429
        /\ rq'[r].pc # "log") => rq'[r].resp = 429

\* C2: the step that takes a request through admission admits it when fewer
\* than capacity slots are held, and otherwise rejects it with 429 in that
\* same step, with no step of any other request and the semaphore untouched;
\* a request rejected so is answered 429 when its cleanup returns.
C2_NonBlockingAdmission ==
    [][\A r \in Requests : C2_AdmissionStep(r) /\ C2_RejectedAnswer(r)]_vars

\* C2 witness: with capacity 1 one request holds the slot inside ingestion
\* and has made no progress since another was rejected with 429.
C2_Witness ==
    \E r, q \in Requests :
        /\ Capacity = 1
        /\ rq[r].pc = "ingest" /\ rq[r].acquired /\ rq[r].total_bytes = 0
        /\ rq[q].pc = "finally" /\ ~rq[q].acquired /\ rq[q].status_code = 429

\* C3 (as claimed; the code violates it): a finished /transcribe request has
\* released the slot once if it acquired it and never otherwise, and once
\* every request has finished the semaphore is back at its initial value.
C3_ReleasedOncePerAcquire ==
    /\ \A r \in Requests :
          (rq[r].pc = "done" /\ rq[r].invoked) =>
              rq[r].releases = (IF rq[r].acquired THEN 1 ELSE 0)
    /\ (\A r \in Requests : rq[r].pc = "done") =>
          transcribe_semaphore = Capacity

\* C4 (as claimed; the code violates it): with the recorder enabled, a
\* finished invocation of the handler has gone through the final logging
\* step and the log holds exactly one row of it.
C4_LoggedExactlyOnce ==
    ENABLE_SQLITE_LOGS =>
        \A r \in Requests :
            (rq[r].pc = "done" /\ rq[r].invoked) =>
                /\ rq[r].logged
                /\ Cardinality({ i \in DOMAIN db : db[i].request = r }) = 1

UnexpectedExc(rec) == rec.exc \notin {"", "HTTPException"}
BadSuffix(rec) == Suffix(rec.filename) \notin ALLOWED_SUFFIXES
BadContentType(rec) ==
    rec.content_type # "" /\ rec.content_type \notin ALLOWED_CONTENT_TYPES

\* The status of the first stage that fails, in pipeline order.
FirstFailure(rec) ==
    IF ~rec.acquired THEN 429
    ELSE IF rec.ready = "False" THEN 503
    ELSE IF BadSuffix(rec) \/ BadContentType(rec) THEN 400
    ELSE IF UnexpectedExc(rec) THEN 500
    ELSE IF rec.size = 0 THEN 400
    ELSE IF rec.size > MAX_UPLOAD_BYTES THEN 413
    ELSE IF rec.encoder = "TimeoutExpired" THEN 504
    ELSE IF rec.encoder = "CalledProcessError" THEN 422
    ELSE 200

\* The handler leaves its try block with the status of the first failure,
\* and a 500 carries the fixed detail.
HandlerStatusIsFirstFailure ==
    \A r \in Requests :
        rq[r].pc = "finally" =>
            /\ rq[r].status_code = FirstFailure(rq[r])
            /\ rq[r].status_code = 500 =>
                  rq[r].detail = "Error interno del servidor"
            /\ rq[r].status_code = 200 <=> rq[r].response_payload

\* The response of a handler invocation is the handler's status, unless
\* closing the upload raised: then it is 500.
AnswerIsHandlerStatusUnlessCloseRaised ==
    \A r \in Requests :
        (rq[r].pc = "respond" /\ rq[r].invoked) =>
            \/ rq[r].resp = rq[r].status_code
            \/ rq[r].close_raised /\ rq[r].resp = 500

\* C5 (as claimed; the code violates it): the response status of a
\* /transcribe request is the status of its first failing stage (429, 503,
\* 400, 400, 413, 504, 422, 500 with the fixed detail) or 200.
C5_ResponseIsFirstFailure ==
    /\ HandlerStatusIsFirstFailure
    /\ \A r \in Requests :
          (rq[r].pc = "respond" /\ rq[r].invoked) =>
              rq[r].resp = rq[r].status_code

IsPrefix(s, t) == Len(s) <= Len(t) /\ SubSeq(t, 1, Len(s)) = s
InTrace(rec, name) == \E i \in DOMAIN rec.trace : rec.trace[i] = name
AfterTry == {"close", "release", "log", "respond", "done"}

\* What C6 says of a request inside its try block or just out of it.
C6_InsideTry(rec) ==
    /\ IsPrefix(rec.trace, Pipeline)
    /\ InTrace(rec, "validation") => rec.acquired /\ rec.ready = "True"
    /\ InTrace(rec, "ingestion") => ~BadSuffix(rec) /\ ~BadContentType(rec)
    /\ rec.pc \in {"encode", "transcribe"} =>
          /\ rec.written = rec.size
          /\ rec.uploaded_bytes = rec.size
    /\ InTrace(rec, "normalization") =>
          /\ rec.encoder # ""
          /\ rec.uploaded_bytes = rec.size
          /\ 0 < rec.size /\ rec.size <= MAX_UPLOAD_BYTES
    /\ rec.encoder # "" => InTrace(rec, "normalization")
    /\ InTrace(rec, "transcription") =>
          rec.encoder = "exit0" /\ rec.inference # "" /\ model # None
    /\ rec.inference # "" => InTrace(rec, "transcription")
    /\ InTrace(rec, "response") =>
          rec.inference = "ok" /\ rec.exc = "" /\ rec.status_code = 200
    /\ rec.exc # "" =>
          /\ rec.pc = "finally"
          /\ rec.status_code = 429 => rec.trace = SubSeq(Pipeline, 1, 1)
          /\ rec.status_code = 503 => rec.trace = SubSeq(Pipeline, 1, 2)
          /\ rec.status_code = 413 => rec.trace = SubSeq(Pipeline, 1, 4)
          /\ rec.status_code \in {504, 422} => rec.trace = SubSeq(Pipeline, 1, 5)

\* C6: the stages a request has entered are an initial part of admission,
\* model_ready, validation, ingestion, normalization, transcription,
\* response; validation runs only for an admitted request with the model
\* ready, ingestion only after validation passed, the encoder only once the
\* whole upload is written, the model's transcribe only after the encoder
\* exited 0 and with the model loaded; a failure is the last stage entered
\* and no stage runs before the handler or in its finally block.
C6_StagesInOrder ==
    \A r \in Requests :
        IF rq[r].pc \in AfterTry \cup {"idle", "handler"}
        THEN rq[r].trace = <<>> /\ rq[r].encoder = "" /\ rq[r].inference = ""
        ELSE rq[r].trace # <<>> /\ C6_InsideTry(rq[r])

\* C6 witness: a request left the try block having run every stage.
C6_Witness ==
    \E r \in Requests :
        /\ rq[r].pc = "finally"
        /\ rq[r].trace = Pipeline
        /\ rq[r].status_code = 200

\* C7 (as claimed): a zero-byte upload ends with status 400, whatever else
\* the service is doing (runs in which an unexpected exception is raised are
\* left aside).
C7_ZeroByteAlways400 ==
    \A r \in Requests :
        (rq[r].pc = "finally" /\ rq[r].filename # "" /\ rq[r].size = 0
            /\ ~UnexpectedExc(rq[r])) =>
            rq[r].status_code = 400

\* C7 (amended): a zero-byte upload is never passed to the encoder or the
\* model; the handler ends with 429 when no slot is free, 503 when the model
\* is not ready, 500 when an unexpected exception is raised, and otherwise
\* 400 whatever the declared content type; the response is that status
\* unless closing the upload raises, and then 500.
C7_ZeroByteNeverAccepted ==
    /\ \A r \in Requests :
          (rq[r].pc = "finally" /\ rq[r].filename # "" /\ rq[r].size = 0) =>
              /\ rq[r].status_code =
                    (IF ~rq[r].acquired THEN 429
                     ELSE IF rq[r].ready = "False" THEN 503
                     ELSE IF UnexpectedExc(rq[r]) THEN 500
                     ELSE 400)
              /\ rq[r].encoder = "" /\ rq[r].inference = ""
              /\ ~rq[r].response_payload
    /\ \A r \in Requests :
          (rq[r].size = 0 /\ rq[r].filename # "") =>
              rq[r].pc \in {"ingest", "finally"} /\ rq[r].written = 0
    /\ AnswerIsHandlerStatusUnlessCloseRaised

\* C7 witness: an admitted zero-byte upload with an allowed suffix and an
\* allowed content type, rejected by the ingestion as empty.
C7_Witness ==
    \E r \in Requests :
        /\ rq[r].pc = "finally"
        /\ rq[r].size = 0
        /\ rq[r].content_type = "audio/wav"
        /\ rq[r].status_code = 400
        /\ rq[r].error_detail = "Archivo vacio"

\* C8 (as claimed): an upload with a disallowed extension ends with status
\* 400, nothing written, the encoder not started, the model not called.
C8_BadExtensionAlways400 ==
    \A r \in Requests :
        (rq[r].pc = "finally" /\ rq[r].filename # "" /\ BadSuffix(rq[r])) =>
            /\ rq[r].status_code = 400
            /\ rq[r].written = 0 /\ rq[r].encoder = "" /\ rq[r].inference = ""

\* C8 (amended): a request whose upload has a disallowed extension never
\* enters ingestion, so nothing of it is written, the encoder is not started
\* and the model is not called; the handler ends with 429 when no slot is
\* free, 503 when the model is not ready and otherwise 400 "Formato de audio
\* no soportado"; the response is that status unless closing the upload
\* raises, and then 500.
C8_BadExtensionRejectedBeforeIngestion ==
    /\ \A r \in Requests :
          (rq[r].filename # "" /\ BadSuffix(rq[r])) =>
              /\ rq[r].pc = "finally"
              /\ ~InTrace(rq[r], "ingestion")
              /\ ~rq[r].tmpdir
              /\ rq[r].written = 0 /\ rq[r].uploaded_bytes = 0
              /\ rq[r].encoder = "" /\ rq[r].inference = ""
              /\ rq[r].status_code =
                    (IF ~rq[r].acquired THEN 429
                     ELSE IF rq[r].ready = "False" THEN 503
                     ELSE 400)
              /\ rq[r].status_code = 400 =>
                    rq[r].error_detail = "Formato de audio no soportado"
    /\ \A r \in Requests :
          (rq[r].pc = "respond" /\ rq[r].invoked) =>
              \/ rq[r].resp = rq[r].status_code
              \/ rq[r].close_raised /\ rq[r].resp = 500

\* C8 witness: an admitted request, the model ready, rejected for its suffix.
C8_Witness ==
    \E r \in Requests :
        /\ rq[r].pc = "finally"
        /\ rq[r].filename = "notes.txt"
        /\ rq[r].acquired /\ rq[r].ready = "True"
        /\ rq[r].status_code = 400

\* SpecIngest: the bytes of the first k chunks of the input stream.
InputPrefix(k) == SumSeq(SubSeq(sv.input, 1, k))

\* C9: for every input stream and chunking, the bytes written to the
\* destination never exceed max_bytes plus one chunk, and the ingestion ends
\* with the 413 condition exactly at the first chunk with which the running
\* total exceeds max_bytes: no earlier, and no chunk is read or written
\* after it.
C9_WrittenBoundedAndAbortAtFirstExcess ==
    /\ SumSeq(sv.destination) <= sv.max_bytes + chunk_size
    /\ sv.result = "413" =>
          /\ sv.pc = "done"
          /\ sv.pos >= 1
          /\ InputPrefix(sv.pos) > sv.max_bytes
          /\ InputPrefix(sv.pos - 1) <= sv.max_bytes
          /\ sv.destination = SubSeq(sv.input, 1, sv.pos - 1)
    /\ sv.result # "413" =>
          /\ InputPrefix(sv.pos) <= sv.max_bytes
          /\ sv.destination = SubSeq(sv.input, 1, sv.pos)
    /\ (sv.pc = "done" /\ sv.result # "413") => sv.pos = Len(sv.input)

\* C9 witness: the ingestion stopped with 413 after writing part of the
\* stream, with chunks of the stream still unread.
C9_Witness ==
    /\ sv.pc = "done"
    /\ sv.result = "413"
    /\ sv.destination # <<>>
    /\ sv.pos < Len(sv.input)

\* The step that takes request r through the POST gate.
C10_GateStep(r) ==
    (rq[r].pc = "idle" /\ rq'[r].pc # "idle") =>
        LET rec == rq'[r]
        IN  /\ (rec.method = "POST" /\ "*" \notin ALLOWED_POST_HOSTS
                  /\ rec.client_host \notin ALLOWED_POST_HOSTS) =>
                  /\ rec.pc = "respond" /\ rec.resp = 403
                  /\ ~rec.invoked /\ ~rec.acquired /\ ~rec.logged
                  /\ rec.waited = 0 /\ rec.trace = <<>>
                  /\ transcribe_semaphore' = transcribe_semaphore
                  /\ db' = db
            /\ "*" \in ALLOWED_POST_HOSTS => rec.resp # 403

\* What follows a 403: the response is sent and nothing else happens.
C10_After403(r) ==
    (rq[r].resp = 403 /\ rq'[r] # rq[r]) =>
        /\ rq[r].pc = "respond" /\ rq'[r].pc = "done"
        /\ ~rq'[r].invoked /\ ~rq'[r].acquired /\ ~rq'[r].logged
        /\ transcribe_semaphore' = transcribe_semaphore
        /\ db' = db

\* C10: when the allowlist has no "*", a POST to any path from a host
\* outside the allowlist gets 403 in the gate step itself, the handler is not
\* invoked, no slot is acquired, the model is not waited on and no log row is
\* written, then or later; when the allowlist has "*", no request gets 403.
C10_GateRejectsBeforeProcessing ==
    [][\A r \in Requests :
          /\ C10_GateStep(r)
          /\ C10_After403(r)
          /\ (rq'[r].resp = 403 /\ rq[r].resp # 403) => rq[r].pc = "idle"]_vars

\* C10 witness: the gate answered 403 to a POST to a path other than
\* /transcribe while another request holds the admission slot.
C10_Witness ==
    \E r, q \in Requests :
        /\ rq[r].pc = "respond" /\ rq[r].resp = 403
        /\ rq[r].method = "POST" /\ rq[r].path = "/other"
        /\ rq[q].pc = "ingest" /\ rq[q].acquired

\* No request is in flight.
Settled == \A r \in Requests : rq[r].pc \in {"idle", "done"}

\* The /transcribe calls that have ended.
Calls == { r \in Requests : rq[r].pc = "done" /\ rq[r].invoked }

\* What holds of every list the reader returns: at most safe_limit entries,
\* the newest rows, newest first, ok true exactly for a 2xx status.
RecentIsNewestFirst ==
    \A limit \in 0..(NReq + 1) :
        LET out == _read_recent_transcribe_logs(limit)
        IN  /\ Len(out) = Min(Max(1, limit), Len(db))
            /\ \A i \in DOMAIN out :
                  /\ out[i].id = Len(db) + 1 - i
                  /\ out[i].ok <=>
                        (200 <= out[i].status_code /\ out[i].status_code < 300)

\* C11 (as claimed; the code violates it): with the recorder enabled, once
\* K + M calls of /transcribe have ended and none is in flight, the reader
\* called with any limit >= K + M returns exactly K + M entries, with
\* strictly decreasing identifiers, each with ok true exactly when its status
\* code is in 200..299.
C11_RecentReturnsEveryCall ==
    (ENABLE_SQLITE_LOGS /\ Settled) =>
        \A limit \in Cardinality(Calls)..(NReq + 1) :
            LET out == _read_recent_transcribe_logs(limit)
            IN  /\ Len(out) = Cardinality(Calls)
                /\ \A i \in 1..(Len(out) - 1) : out[i].id > out[i + 1].id
                /\ \A i \in DOMAIN out :
                      out[i].ok <=>
                        (200 <= out[i].status_code /\ out[i].status_code < 300)

\* The rows of the log that are of request r.
RowsOf(r) == { i \in DOMAIN db : db[i].request = r }

\* C12: a request that went through the final logging step is answered with
\* the status, and the payload or detail, its handler ended with, and has
\* released the slot if it held one, whether the INSERT of its row succeeded
\* (the row is in the log) or failed (no row of it is).
C12_LogFailureInvisible ==
    \A r \in Requests :
        (rq[r].pc = "respond" /\ rq[r].logged) =>
            /\ rq[r].resp = rq[r].status_code
            /\ rq[r].resp = 200 <=> rq[r].response_payload
            /\ rq[r].resp # 200 => rq[r].detail # ""
            /\ rq[r].releases = (IF rq[r].acquired THEN 1 ELSE 0)
            /\ Cardinality(RowsOf(r)) <= 1

\* C12 witness: with the recorder enabled the INSERT of a successful request
\* failed: the request is answered 200 with its payload, the slot released,
\* and the log has no row of it.
C12_Witness ==
    \E r \in Requests :
        /\ ENABLE_SQLITE_LOGS
        /\ rq[r].pc = "respond" /\ rq[r].logged
        /\ RowsOf(r) = {}
        /\ rq[r].resp = 200 /\ rq[r].response_payload
        /\ rq[r].acquired /\ rq[r].releases = 1

\* C13: the temporary directory of a request exists only while the request
\* is in ingestion, normalization or transcription; once the request has
\* left the try block, with 200, 400, 413, 504, 422 or 500, the directory
\* and the file in it are gone.
C13_ScratchDirRemoved ==
    \A r \in Requests :
        /\ rq[r].tmpdir => rq[r].pc \in {"ingest", "encode", "transcribe"}
        /\ rq[r].pc \in {"ingest", "encode", "transcribe"} => rq[r].tmpdir
        /\ rq[r].pc \notin {"ingest", "encode", "transcribe"} =>
              rq[r].written = 0

\* C13 witness: a request that made its directory and wrote the upload into
\* it left the try block with 504, and the directory is gone.
C13_Witness ==
    \E r \in Requests :
        /\ rq[r].pc = "finally"
        /\ InTrace(rq[r], "ingestion")
        /\ rq[r].uploaded_bytes > 0
        /\ rq[r].status_code = 504
        /\ ~rq[r].tmpdir

\* SpecLoader: the load attempts in progress, and those ever started.
ActiveLoads ==
    { i \in Starters : ld.thread[i].pc \in {"WhisperModel", "assign", "finally"} }
StartedLoads == { i \in Starters : ld.thread[i].pc # "unstarted" }

\* C14 (as claimed; the code violates it): whatever the number and the
\* interleaving of the calls of start_model_loader, at most one load attempt
\* is in progress at any time, and as long as no attempt has failed at most
\* one was ever started (a call made during a load or after it succeeded
\* starts none).
C14_AtMostOneLoadActive ==
    /\ Cardinality(ActiveLoads) <= 1
    /\ (\A i \in Starters : ~ld.thread[i].raised) =>
          Cardinality(StartedLoads) <= 1

EnsurePcs == {"ens_if", "ens_while_model", "ens_while_loading", "ens_return"}

\* A step of request r inside ensure_model_loaded.
C15_EnsureStep(r) ==
    (rq[r].pc \in EnsurePcs /\ rq'[r] # rq[r]) =>
        /\ UNCHANGED <<model, model_loading, loader, started>>
        /\ rq'[r].waited <= MAX_WAITED
        /\ rq[r].pc = "ens_if" =>
              IF model # None
              THEN rq'[r].pc = "validate" /\ rq'[r].ready = "True"
                   /\ rq'[r].waited = 0
              ELSE rq'[r].pc = "ens_while_model" /\ rq'[r].waited = 0
        /\ rq'[r].waited > rq[r].waited =>
              /\ rq[r].pc = "ens_while_loading"
              /\ model_loading /\ rq[r].waited < MAX_WAITED
              /\ rq'[r].waited = rq[r].waited + 1
        /\ (rq[r].pc = "ens_while_loading"
               /\ (~model_loading \/ rq[r].waited = MAX_WAITED)) =>
              rq'[r].pc = "ens_return" /\ rq'[r].waited = rq[r].waited
        /\ rq[r].pc = "ens_return" =>
              /\ rq'[r].ready = (IF model # None THEN "True" ELSE "False")
              /\ rq'[r].ready = "True" => rq'[r].pc = "validate"
              /\ rq'[r].ready = "False" =>
                    rq'[r].pc = "finally" /\ rq'[r].status_code = 503

\* C15: a call of ensure_model_loaded returns true at once when the model
\* is set; it polls only after reading the model unset and the loading flag
\* set, at most 15 times, and leaves the loop with no further poll when the
\* flag is clear or the 15th poll is done; what it returns is whether the
\* model is set when it returns (false gives 503); none of its steps changes
\* the model, the loading flag or the loader.
C15_EnsureBoundedAndPassive ==
    [][\A r \in Requests : C15_EnsureStep(r)]_vars

\* C15 witness: a request has polled 15 times, the load is still in
\* progress and the model unset: the call is about to return false.
C15_Witness ==
    \E r \in Requests :
        /\ rq[r].pc = "ens_return"
        /\ rq[r].waited = MAX_WAITED
        /\ model = None /\ model_loading

\* The order of the positions of the loader thread.
LoaderRank(pc) ==
    CASE pc = "unstarted"    -> 0
      [] pc = "WhisperModel" -> 1
      [] pc = "assign"       -> 2
      [] pc = "finally"      -> 3
      [] OTHER               -> 4

\* A request that is past the model-ready check after the load failed.
C16_AfterFailure(r) ==
    loader.raised =>
        /\ (rq[r].pc \in EnsurePcs /\ rq'[r].pc \notin EnsurePcs) =>
              /\ rq'[r].pc = "finally" /\ rq'[r].status_code = 503
              /\ rq'[r].ready = "False"
        /\ rq'[r].pc \notin {"validate", "ingest", "encode", "transcribe"}
        /\ (rq[r].pc = "log" /\ rq[r].acquired /\ rq'[r].pc # "log") =>
              rq[r].status_code = 503 /\ rq'[r].resp = 503

\* C16: the model, once set, is never unset or replaced, and the loader,
\* once started, only moves forward and is never started again; once the
\* load has failed the model stays unset, the failure stays, and every
\* admitted request leaves the model-ready check with 503, which is its
\* answer when its cleanup returns.
C16_LifecycleMonotone ==
    [][ /\ model # None => model' = model
        /\ LoaderRank(loader'.pc) >= LoaderRank(loader.pc)
        /\ loader.pc = "exit" => (loader' = loader /\ ~model_loading')
        /\ (model # None /\ loader.pc = "exit") => ~loader.raised
        /\ loader.raised => (loader'.raised /\ model' = None)
        /\ \A r \in Requests : C16_AfterFailure(r) ]_vars

\* C16 witness: the load has failed and ended; a request admitted after
\* that ended with 503 and the next admitted one left the model-ready check
\* with 503 too.
C16_Witness ==
    \E r, q \in Requests :
        /\ loader.pc = "exit" /\ loader.raised
        /\ model = None /\ ~model_loading
        /\ rq[q].pc = "done" /\ rq[q].acquired /\ rq[q].logged
        /\ rq[r].pc = "finally" /\ rq[r].acquired /\ rq[r].status_code = 503

\* C17: a call of _save_upload_with_limit on a stream of non-empty chunks of
\* total length T ends in exactly one of three ways: 400 exactly when T = 0,
\* 413 exactly when T > max_bytes, and otherwise it returns T with the
\* destination holding the chunks received, all of them and in order.
C17_ThreeOutcomes ==
    sv.pc = "done" =>
        LET T == SumSeq(sv.input)
        IN  /\ sv.result \in {"400", "413", "return"}
            /\ sv.result = "400" <=> T = 0
            /\ sv.result = "413" <=> T > sv.max_bytes
            /\ sv.result = "return" =>
                  /\ sv.total_bytes = T
                  /\ sv.destination = sv.input
                  /\ SumSeq(sv.destination) = T

\* C17 witness: a stream of several chunks whose total is exactly max_bytes
\* was accepted.
C17_Witness ==
    /\ sv.pc = "done"
    /\ sv.result = "return"
    /\ Len(sv.input) >= 2
    /\ SumSeq(sv.input) = sv.max_bytes
    /\ sv.destination = sv.input

\* The requests whose temporary directory exists.
ScratchDirs == { r \in Requests : rq[r].tmpdir }

\* C18: a temporary directory exists only for a request that acquired the
\* admission slot and has not released it, so the directories that exist
\* are never more than max(1, MAX_CONCURRENT_TRANSCRIBES).
C18_ScratchDirsAtMostCapacity ==
    /\ \A r \in ScratchDirs : rq[r].acquired /\ rq[r].releases = 0
    /\ ScratchDirs \subseteq Holders
    /\ Cardinality(ScratchDirs) <= Capacity

\* C18 witness: as many directories as the capacity, 2, exist, each with
\* part of an upload in it.
C18_Witness ==
    /\ Capacity = 2
    /\ Cardinality(ScratchDirs) = Capacity
    /\ \A r \in ScratchDirs : rq[r].written > 0

\* The loader publishes before it clears the flag: a load that got past its
\* assignment has set the model, and once the startup has run the model is
\* unset with the flag clear only if the load failed.
C19_PublishedBeforeCleared ==
    /\ (loader.pc \in {"finally", "exit"} /\ ~loader.raised) => model # None
    /\ (started /\ ~model_loading /\ model = None) => loader.raised

\* C19: in no state after a successful load is the loading flag clear and
\* the model unset; so a call of ensure_model_loaded returns false only if
\* the load failed or the call has used its 15 polls: a call that overlaps
\* a load that succeeds within the budget returns true.
C19_NoFalseDuringSuccessfulLoad ==
    [][ /\ C19_PublishedBeforeCleared
        /\ C19_PublishedBeforeCleared'
        /\ \A r \in Requests :
              (rq[r].pc = "ens_return" /\ rq'[r].ready = "False") =>
                  \/ loader.raised
                  \/ rq[r].waited = MAX_WAITED /\ model = None ]_vars

\* C19 witness: a call that polled while the load was in progress is about
\* to return, within its budget, and the load has succeeded.
C19_Witness ==
    \E r \in Requests :
        /\ rq[r].pc = "ens_return"
        /\ 0 < rq[r].waited /\ rq[r].waited < MAX_WAITED
        /\ ~loader.raised /\ ~model_loading
        /\ model # None

\* C20: the row written for an invocation of the handler has the status of
\* the response sent for it (a request whose close raised has no row); a row
\* has a response payload only with status 200 and an error detail only
\* with another status, and its status is 200, one of the typed codes, or
\* 500.
C20_RecordedStatusIsResponseStatus ==
    /\ \A r \in Requests :
          (rq[r].pc = "respond" /\ rq[r].invoked) =>
              /\ \A i \in RowsOf(r) : db[i].status_code = rq[r].resp
              /\ rq[r].close_raised => RowsOf(r) = {}
    /\ \A i \in DOMAIN db :
          /\ db[i].status_code \in {200, 429, 503, 400, 413, 504, 422, 500}
          /\ db[i].response_json # "" => db[i].status_code = 200
          /\ db[i].error_detail # "" => db[i].status_code # 200
          /\ db[i].status_code = 500 =>
                db[i].error_detail \in { InternalDetail(t) :
                                           t \in {"OSError", "RuntimeError",
                                                  "AttributeError"} }

\* C20 witness: a request answered 413 whose row has status 413, no payload
\* and the detail of the rejection.
C20_Witness ==
    \E r \in Requests :
        /\ rq[r].pc = "respond" /\ rq[r].resp = 413
        /\ \E i \in RowsOf(r) :
              /\ db[i].status_code = 413
              /\ db[i].response_json = ""
              /\ db[i].error_detail # ""

====
